---- MODULE Spec2Model ----
(***************************************************************************)
(* The page controller of the Privy "User already authenticated"          *)
(* reproduction, in its two variants:                                      *)
(*   - src/unnamed/part_000: the Privy-only page with the automatic        *)
(*     account-change handler (specification Spec);                        *)
(*   - src/src/App.tsx: the wagmi page with Disconnect and Full Reset      *)
(*     (specification SpecWagmi).                                          *)
(* The SDK and the wallet provider are an opaque collaborator: every call  *)
(* the page issues is recorded in `trace`, and it resolves or rejects by   *)
(* a nondeterministic choice.  Each action is one run-to-suspension        *)
(* segment of a handler: from a click, an effect run or the settlement of  *)
(* the awaited promise up to the next `await` (or the handler's end).      *)
(***************************************************************************)
EXTENDS Naturals, Sequences, FiniteSets

\* ------------------------------------------------------------------ bounds

\* Operations started in a behaviour (clicks plus automatic handler runs).
MaxOps == 3
\* Length of the SDK's wallet list.
MaxWallets == 1
\* Handler instances a click may find suspended on a promise or a timer.
MaxInFlight == 1
\* Operations started before the SDK reports ready.
MaxEarlyOps == 1

\* ------------------------------------------------------------- value sets

\* JavaScript's undefined, as rendered by a template string.
None == "undefined"
\* The empty error slot (useState<string | null>(null)).
NoError == <<>>

Addresses == {"0xA", "0xB"}
\* Addresses as wagmi's useAccount() reports them: the case of the letters
\* may differ from the one the SDK's wallet list uses.
WagmiAddresses == {"0xa"}
\* Messages the SDK may return from generateSiweMessage.
Messages == {"siwe-1"}
\* Signatures the wallet provider may return from personal_sign.
Signatures == {"sig-1"}
\* e.message of a rejection of an SDK or wallet-provider call.
ErrMsgs == {<<"User already authenticated">>}

RECURSIVE SeqsUpTo(_, _)
\* Sequences over S without repetition, of length at most n.
SeqsUpTo(S, n) ==
  IF n = 0 THEN {<<>>}
  ELSE LET shorter == SeqsUpTo(S, n - 1)
       IN  shorter \cup {Append(s, x) : s \in {t \in shorter : Len(t) = n - 1},
                                        x \in S}

NoRepeat(s) == \A i, j \in 1..Len(s) : i # j => s[i] # s[j]

\* Values of useWallets().wallets: each wallet is represented by its address.
WalletLists == {s \in SeqsUpTo(Addresses, MaxWallets) : NoRepeat(s)}

VARIABLES
  ready,                      \* usePrivy().ready
  authenticated,              \* usePrivy().authenticated
  wallets,                    \* useWallets().wallets
  logs,                       \* useState<string[]>: the log lines
  error,                      \* useState<string | null>: the error slot
  isProcessingAccountChange,  \* useState(false): the in-flight flag
  prevAddressRef,             \* useRef: the recorded previous address
  hasCompletedSiweRef,        \* useRef: the sign-in-completed flag
  handlers,                   \* the handler instances, by operation number
  ops,                        \* operations started so far
  trace,                      \* calls issued to the collaborator and their outcomes
  account,                    \* wagmi useAccount(): [address, connector]
  connectors,                 \* wagmi useConnect().connectors
  page                        \* which of the two pages is mounted

vars == <<ready, authenticated, wallets, logs, error, isProcessingAccountChange,
          prevAddressRef, hasCompletedSiweRef, handlers, ops, trace,
          account, connectors, page>>

sdkVars == <<ready, authenticated, wallets>>
refVars == <<prevAddressRef, hasCompletedSiweRef>>
wagmiVars == <<account, connectors, page>>

\* ------------------------------------------------------------ pure helpers

\* `${b}` of a boolean.
Str(b) == IF b THEN "true" ELSE "false"

\* `${n}` of a small number.
NumStr(n) == <<"0", "1", "2", "3", "4", "5", "6", "7", "8", "9">>[n + 1]

\* const connectedWallet = wallets[0]
ConnectedWallet(w) == IF Len(w) = 0 THEN None ELSE w[1]

\* const address = connectedWallet?.address
AddressOf(w) == ConnectedWallet(w)

\* A line contains a piece of text.
Contains(line, piece) == \E k \in 1..Len(line) : line[k] = piece

\* The new line put in front of the lines already present.
logPrepend(lines, msg) == <<msg>> \o lines

\* log(msg): the line appended for msg.  The wall-clock prefix `[${time}] `
\* is the wall clock, carries no state of the page, and is left out.
log(lines, msg) == Append(lines, msg)

RECURSIVE logAll(_, _)
\* Consecutive log(...) calls of one segment.
logAll(lines, msgs) ==
  IF msgs = <<>> THEN lines ELSE logAll(log(lines, Head(msgs)), Tail(msgs))


\* --------------------------------------------------------- handler instances

\* A handler instance: the closure of the render it was created in (address,
\* wallets, authenticated, connector) and its locals (message, signature).
\* pc names the promise the instance is suspended on.
Idle == [kind |-> "none", pc |-> "idle", address |-> None, wallets |-> <<>>,
         authenticated |-> FALSE, connector |-> None,
         message |-> None, signature |-> None]

\* One entry of the collaborator's recording: handler i of the given kind
\* issued call fn ("call"), or saw it resolve or reject, or threw locally.
Ev(i, kind, ev, fn, args) ==
  [id |-> i, kind |-> kind, ev |-> ev, fn |-> fn, args |-> args]

InFlight(i) == handlers[i].pc # "idle"

\* The model's budget of operations is not used up.
CanStart == ops < MaxOps /\ (ready \/ ops < MaxEarlyOps)

\* A click that starts an asynchronous handler: the budget of operations and
\* of concurrently suspended instances is not used up.
CanClick ==
  /\ CanStart
  /\ Cardinality({i \in DOMAIN handlers : InFlight(i)}) < MaxInFlight

\* Another chain's identifier.
ChainIdMainnet == "eip155:1"

\* The fixed chain identifier of the challenge request.
ChainId == "eip155:56"

FailedLine(msg) == <<"FAILED: ">> \o msg
NoteLine == <<"NOTE: Cannot get linked embedded wallet with wallet B">>

\* ------------------------------------------------- automatic handler: guards

\* The guards without the "address hasn't changed" test.
DecisionWithoutSameAddressCheck(rdy, addr, prev, completed, processing) ==
  IF ~rdy \/ addr = None THEN "skip"
  ELSE IF prev = None THEN "initial"
  ELSE IF ~completed THEN "record"
  ELSE IF processing THEN "busy"
  ELSE "reauth"

\* The guards without the "already processing" test.
DecisionWithoutBusyCheck(rdy, addr, prev, completed, processing) ==
  IF ~rdy \/ addr = None THEN "skip"
  ELSE IF prev = None THEN "initial"
  ELSE IF prev = addr THEN "unchanged"
  ELSE IF ~completed THEN "record"
  ELSE "reauth"

\* The guards without the "haven't completed SIWE yet" test.
DecisionWithoutCompletedCheck(rdy, addr, prev, completed, processing) ==
  IF ~rdy \/ addr = None THEN "skip"
  ELSE IF prev = None THEN "initial"
  ELSE IF prev = addr THEN "unchanged"
  ELSE IF processing THEN "busy"
  ELSE "reauth"

\* The guards with the "already processing" test recording the address.
DecisionBusyRecords(rdy, addr, prev, completed, processing) ==
  IF ~rdy \/ addr = None THEN "skip"
  ELSE IF prev = None THEN "initial"
  ELSE IF prev = addr THEN "unchanged"
  ELSE IF ~completed THEN "record"
  ELSE IF processing THEN "record"
  ELSE "reauth"

\* The guards without the "not ready" test.
DecisionWithoutReadyCheck(rdy, addr, prev, completed, processing) ==
  IF addr = None THEN "skip"
  ELSE IF prev = None THEN "initial"
  ELSE IF prev = addr THEN "unchanged"
  ELSE IF ~completed THEN "record"
  ELSE IF processing THEN "busy"
  ELSE "reauth"

\* The guards at the head of handleAccountChange, as the decision they take
\* for an effect run that sees (rdy, addr) with the refs and the flag as given.
HandleAccountChangeDecision(rdy, addr, prev, completed, processing) ==
  IF ~rdy \/ addr = None THEN "skip"
  ELSE IF prev = None THEN "initial"
  ELSE IF prev = addr THEN "unchanged"
  ELSE IF ~completed THEN "record"
  ELSE IF processing THEN "busy"
  ELSE "reauth"

\* The lines logged when a change is acted on, up to the logout call.
AccountChangeLines(oldAddress, addr) ==
  << <<"--- WALLET ACCOUNT CHANGE DETECTED ---">>,
     <<"Previous: ", oldAddress>>,
     <<"New: ", addr>>,
     <<"Step 1: Calling logout()...">> >>

\* The handler going on to the sign-in whatever the outcome of logout.
AutoAfterLogoutIgnoringOutcome(outcome) == "delay"

\* Where the automatic handler goes when its logout settles: on to the
\* settle delay, or into the catch block.
AutoAfterLogout(outcome) == IF outcome = "resolve" THEN "delay" ELSE "catch"

\* The catch block without the diagnostic note.
AutoCatchLinesWithoutNote(msg) == <<FailedLine(msg)>>

\* The catch block of handleAccountChange: the lines it logs.
AutoCatchLines(msg) == <<FailedLine(msg), NoteLine>>

\* The catch block of handleAccountChange: the error it sets.
AutoCatchError(msg) == msg

\* The flag cleared in the catch block only, not in a finally block.
AutoFinallyOnlyInCatch(outcome) == outcome # "reject"

\* The flag cleared at the end of the try block only, not in a finally block.
AutoFinallyOnlyInTry(outcome) == outcome = "reject"

\* The finally block of handleAccountChange: the value given to the in-flight
\* flag, whatever the outcome of the try block.
AutoFinally(outcome) == FALSE

\* ----------------------------------------------------------- performSiweLogin

\* performSiweLogin reading the address of the latest render.
SiweAddressOfLatestRender(h) == AddressOf(wallets)

\* The address performSiweLogin signs in with: `address` of the render its
\* caller was created in (the closure h).
SiweAddress(h) == h.address

\* The flag set whatever the outcome of the sign-in.
HasCompletedSiweOnAnyOutcome(outcome, current) == TRUE

\* The flag following the outcome of the last sign-in.
HasCompletedSiweOfLastSignIn(outcome, current) == outcome = "resolve"

\* hasCompletedSiweRef.current after performSiweLogin ended with the given
\* outcome: set on the line after the awaited loginWithSiwe, which a
\* rejection of any awaited call does not reach.
HasCompletedSiweAfter(outcome, current) ==
  IF outcome = "resolve" THEN TRUE ELSE current

\* The guard at the head of performSiweLogin.
SiweHasWallet(addr, w) == addr # None /\ ConnectedWallet(w) # None

\* The segment of performSiweLogin from its entry to its first await, for
\* instance i with closure h, after `lines` have been logged by the caller.
\* With no wallet it logs and returns normally, which ends the caller too.
PerformSiweLoginEnter(i, h, lines) ==
  IF ~SiweHasWallet(h.address, h.wallets)
  THEN /\ logs' = log(lines, <<"Cannot perform SIWE: no wallet connected">>)
       /\ handlers' = [handlers EXCEPT ![i] = Idle]
       /\ trace' = trace
  ELSE /\ logs' = log(lines, <<"Generating SIWE message...">>)
       /\ handlers' = [handlers EXCEPT ![i] = [h EXCEPT !.pc = "generate"]]
       /\ trace' = Append(trace, Ev(i, h.kind, "call", "generateSiweMessage",
                                    <<SiweAddress(h), ChainId>>))

\* The effect of [address, ready]: runs handleAccountChange after a render in
\* which one of the two changed.  setIsProcessingAccountChange(true) is
\* committed by React before the next external update is rendered, so the
\* flag a later effect run reads is the one set here.
HandleAccountChange(rdy, w) ==
  LET addr == AddressOf(w)
      d == HandleAccountChangeDecision(rdy, addr, prevAddressRef,
                                       hasCompletedSiweRef,
                                       isProcessingAccountChange)
      i == ops + 1
  IN  CASE d \in {"skip", "unchanged", "busy"} ->
             UNCHANGED <<logs, error, isProcessingAccountChange, refVars,
                         handlers, ops, trace>>
        [] d \in {"initial", "record"} ->
             /\ prevAddressRef' = addr
             /\ UNCHANGED <<logs, error, isProcessingAccountChange,
                            hasCompletedSiweRef, handlers, ops, trace>>
        [] d = "reauth" ->
             /\ CanStart
             /\ ops' = i
             /\ prevAddressRef' = addr
             /\ logs' = logAll(logs, AccountChangeLines(prevAddressRef, addr))
             /\ isProcessingAccountChange' = TRUE
             /\ error' = NoError
             /\ trace' = Append(trace, Ev(i, "auto", "call", "logout", <<>>))
             /\ handlers' = [handlers EXCEPT ![i] =
                    [Idle EXCEPT !.kind = "auto", !.pc = "logout",
                                 !.address = addr, !.wallets = w,
                                 !.authenticated = authenticated]]
             /\ UNCHANGED hasCompletedSiweRef

\* The SDK reports a new ready flag or wallet list; the page re-renders and,
\* when address or ready changed, the effect runs.
SdkUpdate(rdy, w) ==
  /\ <<rdy, w>> # <<ready, wallets>>
  /\ ready => rdy
  /\ ready' = rdy
  /\ wallets' = w
  /\ IF <<rdy, AddressOf(w)>> = <<ready, AddressOf(wallets)>>
     THEN UNCHANGED <<logs, error, isProcessingAccountChange, refVars,
                      handlers, ops, trace>>
     ELSE HandleAccountChange(rdy, w)
  /\ UNCHANGED <<authenticated, wagmiVars>>

\* The session as the SDK holds it: opened by the last sign-in call that
\* resolved, closed by the last logout call that resolved.
RECURSIVE SessionOpen(_)
SessionOpen(t) ==
  IF t = <<>> THEN FALSE
  ELSE LET e == t[Len(t)]
       IN  IF e.ev = "resolve" /\ e.fn = "loginWithSiwe" THEN TRUE
           ELSE IF e.ev = "resolve" /\ e.fn = "logout" THEN FALSE
           ELSE SessionOpen(SubSeq(t, 1, Len(t) - 1))

\* The SDK reports a new authenticated flag, some time after the session
\* changed; the page re-renders.
SdkAuthenticated(b) ==
  /\ b # authenticated
  /\ b = SessionOpen(trace)
  /\ authenticated' = b
  /\ UNCHANGED <<ready, wallets, logs, error, isProcessingAccountChange,
                 refVars, handlers, ops, trace, wagmiVars>>

\* The end of the automatic handler's try block by a rejection: catch, finally.
\* (hasCompletedSiweRef is left to the step the rejection arrives in.)
AutoCatch(i, h, fn, msg) ==
  /\ logs' = logAll(logs, AutoCatchLines(msg))
  /\ error' = AutoCatchError(msg)
  /\ isProcessingAccountChange' = AutoFinally("reject")
  /\ handlers' = [handlers EXCEPT ![i] = Idle]
  /\ trace' = Append(trace, Ev(i, h.kind, "reject", fn, msg))
  /\ UNCHANGED <<sdkVars, prevAddressRef, ops, wagmiVars>>

\* await logout() of the automatic handler settles.
AutoLogoutSettled(i, outcome, msg) ==
  LET h == handlers[i] IN
  /\ h.kind = "auto" /\ h.pc = "logout"
  /\ IF AutoAfterLogout(outcome) = "delay"
     THEN /\ logs' = log(logs, <<"logout() completed">>)
          /\ handlers' = [handlers EXCEPT ![i] = [h EXCEPT !.pc = "delay"]]
          /\ trace' = Append(trace, Ev(i, h.kind, outcome, "logout",
                                       IF outcome = "reject" THEN msg ELSE <<>>))
          /\ UNCHANGED <<sdkVars, error, isProcessingAccountChange, refVars,
                         ops, wagmiVars>>
     ELSE /\ AutoCatch(i, h, "logout", msg)
          /\ UNCHANGED hasCompletedSiweRef

\* The 100 ms settle delay of the automatic handler elapses: step 2 begins.
AutoDelayElapsed(i) ==
  LET h == handlers[i] IN
  /\ h.kind = "auto" /\ h.pc = "delay"
  /\ PerformSiweLoginEnter(i, h,
        log(logs, <<"Step 2: Attempting SIWE with new wallet...">>))
  /\ isProcessingAccountChange' =
        IF SiweHasWallet(h.address, h.wallets)
        THEN isProcessingAccountChange ELSE AutoFinally("resolve")
  /\ UNCHANGED <<sdkVars, error, refVars, ops, wagmiVars>>

\* --------------------------------------------------- manual handlers (Privy)

\* The catch block of handleLoginSiwe: the lines it logs.
LoginCatchLines(msg) == <<FailedLine(msg)>>

\* The catch block of handleLoginSiwe: the error it sets.
LoginCatchError(msg) == msg

\* handleLoginSiwe without its guards.
LoginPrecheckMissing(addr, w) == NoError

\* The two guards of handleLoginSiwe: the message of the Error thrown, or
\* NoError when both pass.
LoginPrecheck(addr, w) ==
  IF addr = None THEN <<"No address", " - connect wallet first">>
  ELSE IF ConnectedWallet(w) = None THEN <<"No wallet connected">>
  ELSE NoError

\* The lines handleLoginSiwe logs before its guards.
LoginHeaderLines(addr, rdy, auth, w) ==
  << <<"--- Starting SIWE Login ---">>,
     <<"Address: ", addr>>,
     <<"Privy ready: ", Str(rdy)>>,
     <<"Privy authenticated: ", Str(auth)>>,
     <<"Wallets count: ", NumStr(Len(w))>> >>

\* Click on "2. Login SIWE".
HandleLoginSiwe ==
  LET i == ops + 1
      addr == AddressOf(wallets)
      h == [Idle EXCEPT !.kind = "login", !.address = addr,
                        !.wallets = wallets, !.authenticated = authenticated]
      lines == logAll(logs, LoginHeaderLines(addr, ready, authenticated, wallets))
      thrown == LoginPrecheck(addr, wallets)
  IN  /\ IF thrown # NoError THEN CanStart ELSE CanClick
      /\ ops' = i
      /\ IF thrown # NoError
         THEN /\ logs' = logAll(lines, LoginCatchLines(thrown))
              /\ error' = LoginCatchError(thrown)
              /\ trace' = Append(trace, Ev(i, "login", "throw", "handleLoginSiwe",
                                           thrown))
              /\ UNCHANGED handlers
         ELSE /\ error' = NoError
              /\ PerformSiweLoginEnter(i, h, lines)
      /\ UNCHANGED <<sdkVars, isProcessingAccountChange, refVars, wagmiVars>>

\* The call a sign-in is suspended on.
SiwePcs == {"generate", "provider", "sign", "signin"}
SiweFn(pc) ==
  CASE pc = "generate" -> "generateSiweMessage"
    [] pc = "provider" -> "getEthereumProvider"
    [] pc = "sign" -> "personal_sign"
    [] pc = "signin" -> "loginWithSiwe"

\* await generateSiweMessage(...) resolves with message m.
SiweMessageGenerated(i, m) ==
  LET h == handlers[i] IN
  /\ h.kind \in {"auto", "login"} /\ h.pc = "generate"
  /\ logs' = logAll(logs, << <<"Message generated">>,
                             <<"Requesting signature...">> >>)
  /\ handlers' = [handlers EXCEPT ![i] = [h EXCEPT !.pc = "provider",
                                                   !.message = m]]
  /\ trace' = trace \o << Ev(i, h.kind, "resolve", "generateSiweMessage", <<m>>),
                          Ev(i, h.kind, "call", "getEthereumProvider",
                             <<ConnectedWallet(h.wallets)>>) >>
  /\ UNCHANGED <<sdkVars, error, isProcessingAccountChange, refVars, ops,
                 wagmiVars>>

\* await connectedWallet.getEthereumProvider() resolves.
SiweProviderObtained(i) ==
  LET h == handlers[i] IN
  /\ h.kind \in {"auto", "login"} /\ h.pc = "provider"
  /\ handlers' = [handlers EXCEPT ![i] = [h EXCEPT !.pc = "sign"]]
  /\ trace' = trace \o << Ev(i, h.kind, "resolve", "getEthereumProvider", <<>>),
                          Ev(i, h.kind, "call", "personal_sign",
                             <<h.message, SiweAddress(h)>>) >>
  /\ UNCHANGED <<sdkVars, logs, error, isProcessingAccountChange, refVars, ops,
                 wagmiVars>>

\* await provider.request({method: 'personal_sign', ...}) resolves with s.
SiweSigned(i, s) ==
  LET h == handlers[i] IN
  /\ h.kind \in {"auto", "login"} /\ h.pc = "sign"
  /\ logs' = logAll(logs, << <<"Signature obtained">>,
                             <<"Calling loginWithSiwe()...">> >>)
  /\ handlers' = [handlers EXCEPT ![i] = [h EXCEPT !.pc = "signin",
                                                   !.signature = s]]
  /\ trace' = trace \o << Ev(i, h.kind, "resolve", "personal_sign", <<s>>),
                          Ev(i, h.kind, "call", "loginWithSiwe",
                             <<h.message, s>>) >>
  /\ UNCHANGED <<sdkVars, error, isProcessingAccountChange, refVars, ops,
                 wagmiVars>>

\* await loginWithSiwe(...) resolves: performSiweLogin returns, and with it
\* the try block of its caller.
SiweLoggedIn(i) ==
  LET h == handlers[i] IN
  /\ h.kind \in {"auto", "login"} /\ h.pc = "signin"
  /\ logs' = log(logs, <<"SUCCESS: loginWithSiwe completed!">>)
  /\ hasCompletedSiweRef' = HasCompletedSiweAfter("resolve", hasCompletedSiweRef)
  /\ isProcessingAccountChange' =
        IF h.kind = "auto" THEN AutoFinally("resolve")
        ELSE isProcessingAccountChange
  /\ handlers' = [handlers EXCEPT ![i] = Idle]
  /\ trace' = Append(trace, Ev(i, h.kind, "resolve", "loginWithSiwe", <<>>))
  /\ UNCHANGED <<sdkVars, error, prevAddressRef, ops, wagmiVars>>

\* One of the awaited calls of a sign-in rejects with e.message = msg: the
\* catch block of the caller runs.
SiweRejected(i, msg) ==
  LET h == handlers[i] IN
  /\ h.kind \in {"auto", "login"} /\ h.pc \in SiwePcs
  /\ hasCompletedSiweRef' = HasCompletedSiweAfter("reject", hasCompletedSiweRef)
  /\ IF h.kind = "auto"
     THEN AutoCatch(i, h, SiweFn(h.pc), msg)
     ELSE /\ logs' = logAll(logs, LoginCatchLines(msg))
          /\ error' = LoginCatchError(msg)
          /\ handlers' = [handlers EXCEPT ![i] = Idle]
          /\ trace' = Append(trace, Ev(i, h.kind, "reject", SiweFn(h.pc), msg))
          /\ UNCHANGED <<sdkVars, isProcessingAccountChange, prevAddressRef,
                         ops, wagmiVars>>

\* The lines handleLogout logs before calling logout().
LogoutHeaderLines(auth) ==
  << <<"--- Logging out from Privy ---">>,
     <<"Before: authenticated = ", Str(auth)>> >>

\* The value of `authenticated` in the delayed line of handleLogout: the
\* timer callback is a closure of the render the click happened in (h), so it
\* reads that render's value, not the one current when the timer fires.
LogoutAfterValue(h, current) == h.authenticated

LogoutAfterLine(auth) == <<"After 500ms: authenticated = ", Str(auth)>>

\* Click on "3. Logout Privy".
HandleLogout ==
  LET i == ops + 1 IN
  /\ CanClick
  /\ ops' = i
  /\ error' = NoError
  /\ logs' = logAll(logs, LogoutHeaderLines(authenticated))
  /\ handlers' = [handlers EXCEPT ![i] =
         [Idle EXCEPT !.kind = "logout", !.pc = "logout",
                      !.address = AddressOf(wallets), !.wallets = wallets,
                      !.authenticated = authenticated]]
  /\ trace' = Append(trace, Ev(i, "logout", "call", "logout", <<>>))
  /\ UNCHANGED <<sdkVars, isProcessingAccountChange, refVars, wagmiVars>>

\* await logout() of handleLogout resolves: the 500 ms timer is set.
LogoutResolved(i) ==
  LET h == handlers[i] IN
  /\ h.kind = "logout" /\ h.pc = "logout"
  /\ logs' = log(logs, <<"logout() completed">>)
  /\ handlers' = [handlers EXCEPT ![i] = [h EXCEPT !.pc = "timer"]]
  /\ trace' = Append(trace, Ev(i, h.kind, "resolve", "logout", <<>>))
  /\ UNCHANGED <<sdkVars, error, isProcessingAccountChange, refVars, ops,
                 wagmiVars>>

\* await logout() of handleLogout rejects.
LogoutRejected(i, msg) ==
  LET h == handlers[i] IN
  /\ h.kind = "logout" /\ h.pc = "logout"
  /\ logs' = log(logs, <<"Logout failed: ">> \o msg)
  /\ error' = msg
  /\ handlers' = [handlers EXCEPT ![i] = Idle]
  /\ trace' = Append(trace, Ev(i, h.kind, "reject", "logout", msg))
  /\ UNCHANGED <<sdkVars, isProcessingAccountChange, refVars, ops, wagmiVars>>

\* The 500 ms timer of handleLogout fires.
LogoutTimerFired(i) ==
  LET h == handlers[i] IN
  /\ h.kind = "logout" /\ h.pc = "timer"
  /\ logs' = log(logs, LogoutAfterLine(LogoutAfterValue(h, authenticated)))
  /\ handlers' = [handlers EXCEPT ![i] = Idle]
  /\ trace' = Append(trace, Ev(i, h.kind, "timer", "setTimeout",
                               <<Str(authenticated)>>))
  /\ UNCHANGED <<sdkVars, error, isProcessingAccountChange, refVars, ops,
                 wagmiVars>>

\* clearLogs without setError(null).
ClearedErrorKept == error

\* const clearLogs = () => { setLogs([]); setError(null) }
ClearedLogs == <<>>
ClearedError == NoError

\* Click on "Clear Logs".
ClearLogs ==
  /\ CanStart
  /\ ops' = ops + 1
  /\ logs' = ClearedLogs
  /\ error' = ClearedError
  /\ trace' = Append(trace, Ev(ops + 1, "clear", "click", "clearLogs", <<>>))
  /\ UNCHANGED <<sdkVars, isProcessingAccountChange, refVars, handlers,
                 wagmiVars>>

\* Click on "1. Connect with Privy": login() opens the modal and returns, or
\* throws msg synchronously.
HandleConnect(outcome, msg) ==
  LET i == ops + 1 IN
  /\ CanStart
  /\ ops' = i
  /\ IF outcome = "resolve"
     THEN /\ logs' = log(ClearedLogs, <<"Opening Privy connect modal...">>)
          /\ error' = ClearedError
          /\ trace' = trace \o << Ev(i, "connect", "call", "login", <<>>),
                                  Ev(i, "connect", "resolve", "login", <<>>) >>
     ELSE /\ logs' = logAll(ClearedLogs, << <<"Opening Privy connect modal...">>,
                                            <<"Connect failed: ">> \o msg >>)
          /\ error' = msg
          /\ trace' = trace \o << Ev(i, "connect", "call", "login", <<>>),
                                  Ev(i, "connect", "reject", "login", msg) >>
  /\ UNCHANGED <<sdkVars, isProcessingAccountChange, refVars, handlers,
                 wagmiVars>>

\* ------------------------------------------------ the wagmi page (App.tsx)

\* String.prototype.toLowerCase on the addresses of the model.
ToLowerCase(a) ==
  CASE a = "0xA" -> "0xa"
    [] a = "0xB" -> "0xb"
    [] OTHER -> a

RECURSIVE Join(_)
\* ids.join(', ')
Join(ids) ==
  IF ids = <<>> THEN <<>>
  ELSE IF Len(ids) = 1 THEN <<ids[1]>>
  ELSE <<ids[1], ", ">> \o Join(Tail(ids))

\* The connector ids handleConnect accepts.
SuitableIds == {"injected", "metaMask", "io.metamask"}

RECURSIVE FindConnector(_)
\* connectors.find(c => c.id === 'injected' || ...): the first suitable one.
FindConnector(cs) ==
  IF cs = <<>> THEN None
  ELSE IF Head(cs) \in SuitableIds THEN Head(cs)
  ELSE FindConnector(Tail(cs))

RECURSIVE FindWallet(_, _)
\* wallets.find(w => w.address.toLowerCase() === address.toLowerCase())
FindWallet(w, addr) ==
  IF w = <<>> THEN None
  ELSE IF ToLowerCase(Head(w)) = ToLowerCase(addr) THEN Head(w)
  ELSE FindWallet(Tail(w), addr)

\* throw new Error(`No wallet connector found. Available: ${...}`)
NoConnectorMsg(cs) == <<"No wallet connector found. Available: ">> \o Join(cs)

\* wagmi reports a new account (address and connector); the page re-renders.
WagmiUpdate(acc) ==
  /\ acc # account
  /\ account' = acc
  /\ UNCHANGED <<sdkVars, logs, error, isProcessingAccountChange, refVars,
                 handlers, ops, trace, connectors, page>>

\* The SDK reports a new ready flag or wallet list; the page re-renders.
\* This page has no effect watching them.
WagmiSdkUpdate(rdy, w) ==
  /\ <<rdy, w>> # <<ready, wallets>>
  /\ ready => rdy
  /\ ready' = rdy
  /\ wallets' = w
  /\ UNCHANGED <<authenticated, logs, error, isProcessingAccountChange, refVars,
                 handlers, ops, trace, wagmiVars>>

\* The catch block of a handler of the wagmi page: the line it logs.
WagmiCatchLine(kind, msg) ==
  CASE kind = "connect" -> <<"Connect failed: ">> \o msg
    [] kind = "login" -> FailedLine(msg)
    [] kind = "logout" -> <<"Logout failed: ">> \o msg
    [] kind = "disconnect" -> <<"Disconnect failed: ">> \o msg
    [] kind = "reset" -> <<"Reset failed: ">> \o msg

\* Every catch block logging the failure only.
WagmiCatchErrorLogsOnly(kind, msg, current) == current

\* The catch block of a handler of the wagmi page: the error slot after it.
\* handleDisconnect logs the failure and does not call setError.
WagmiCatchError(kind, msg, current) ==
  IF kind = "disconnect" THEN current ELSE msg

\* The catch block of handler i runs for a rejection of call fn.
WagmiCatch(i, h, fn, msg) ==
  /\ logs' = log(logs, WagmiCatchLine(h.kind, msg))
  /\ error' = WagmiCatchError(h.kind, msg, error)
  /\ handlers' = [handlers EXCEPT ![i] = Idle]
  /\ trace' = Append(trace, Ev(i, h.kind, "reject", fn, msg))
  /\ UNCHANGED <<sdkVars, isProcessingAccountChange, refVars, ops, wagmiVars>>

\* Click on "1. Connect".
WagmiHandleConnect ==
  LET i == ops + 1
      found == FindConnector(connectors)
      lines == logAll(ClearedLogs,
                 << <<"Connecting wallet...">>,
                    <<"Available connectors: ">> \o Join(connectors) >>)
  IN  /\ IF found = None THEN CanStart ELSE CanClick
      /\ ops' = i
      /\ IF found = None
         THEN /\ logs' = log(lines, WagmiCatchLine("connect",
                                                   NoConnectorMsg(connectors)))
              /\ error' = WagmiCatchError("connect", NoConnectorMsg(connectors),
                                          ClearedError)
              /\ trace' = Append(trace, Ev(i, "connect", "throw", "handleConnect",
                                           NoConnectorMsg(connectors)))
              /\ UNCHANGED handlers
         ELSE /\ logs' = log(lines, <<"Using connector: ", found>>)
              /\ error' = ClearedError
              /\ trace' = Append(trace, Ev(i, "connect", "call", "connectAsync",
                                           <<found>>))
              /\ handlers' = [handlers EXCEPT ![i] =
                     [Idle EXCEPT !.kind = "connect", !.pc = "connect",
                                  !.connector = found]]
      /\ UNCHANGED <<sdkVars, isProcessingAccountChange, refVars, wagmiVars>>

\* await connectAsync({ connector }) of handleConnect resolves.
WagmiConnected(i) ==
  LET h == handlers[i] IN
  /\ h.kind = "connect" /\ h.pc = "connect"
  /\ logs' = log(logs, <<"Connected!">>)
  /\ handlers' = [handlers EXCEPT ![i] = Idle]
  /\ trace' = Append(trace, Ev(i, h.kind, "resolve", "connectAsync", <<>>))
  /\ UNCHANGED <<sdkVars, error, isProcessingAccountChange, refVars, ops,
                 wagmiVars>>

\* The lines handleLoginSiwe of the wagmi page logs before its guard.
WagmiLoginHeaderLines(addr, rdy, auth) ==
  << <<"--- Starting SIWE Login ---">>,
     <<"Address: ", addr>>,
     <<"Privy ready: ", Str(rdy)>>,
     <<"Privy authenticated: ", Str(auth)>> >>

\* The guard of handleLoginSiwe of the wagmi page: the message of the Error
\* thrown, or NoError.
WagmiLoginPrecheck(addr) == IF addr = None THEN <<"No address">> ELSE NoError

\* Click on "2. Login with SIWE".
WagmiHandleLoginSiwe ==
  LET i == ops + 1
      addr == account.address
      lines == logAll(logs, WagmiLoginHeaderLines(addr, ready, authenticated))
      thrown == WagmiLoginPrecheck(addr)
  IN  /\ IF thrown # NoError THEN CanStart ELSE CanClick
      /\ ops' = i
      /\ IF thrown # NoError
         THEN /\ logs' = log(lines, WagmiCatchLine("login", thrown))
              /\ error' = WagmiCatchError("login", thrown, NoError)
              /\ trace' = Append(trace, Ev(i, "login", "throw", "handleLoginSiwe",
                                           thrown))
              /\ UNCHANGED handlers
         ELSE /\ logs' = log(lines, <<"Generating SIWE message...">>)
              /\ error' = NoError
              /\ trace' = Append(trace, Ev(i, "login", "call",
                                           "generateSiweMessage",
                                           <<addr, ChainId>>))
              /\ handlers' = [handlers EXCEPT ![i] =
                     [Idle EXCEPT !.kind = "login", !.pc = "generate",
                                  !.address = addr, !.wallets = wallets,
                                  !.authenticated = authenticated]]
      /\ UNCHANGED <<sdkVars, isProcessingAccountChange, refVars, wagmiVars>>

\* await generateSiweMessage(...) resolves with m: the wallet is looked up in
\* the wallet list of the render the click happened in.
WagmiMessageGenerated(i, m) ==
  LET h == handlers[i]
      wallet == FindWallet(h.wallets, h.address)
      lines == logAll(logs, << <<"Message generated">>,
                               <<"Requesting signature...">> >>)
      msg == <<"Wallet not in Privy wallets array">>
  IN  /\ h.kind = "login" /\ h.pc = "generate"
      /\ IF wallet = None
         THEN /\ logs' = log(lines, WagmiCatchLine("login", msg))
              /\ error' = WagmiCatchError("login", msg, error)
              /\ handlers' = [handlers EXCEPT ![i] = Idle]
              /\ trace' = trace \o
                   << Ev(i, h.kind, "resolve", "generateSiweMessage", <<m>>),
                      Ev(i, h.kind, "throw", "handleLoginSiwe", msg) >>
         ELSE /\ logs' = lines
              /\ error' = error
              /\ handlers' = [handlers EXCEPT ![i] =
                     [h EXCEPT !.pc = "provider", !.message = m]]
              /\ trace' = trace \o
                   << Ev(i, h.kind, "resolve", "generateSiweMessage", <<m>>),
                      Ev(i, h.kind, "call", "getEthereumProvider", <<wallet>>) >>
      /\ UNCHANGED <<sdkVars, isProcessingAccountChange, refVars, ops, wagmiVars>>

\* await wallet.getEthereumProvider() resolves.
WagmiProviderObtained(i) ==
  LET h == handlers[i] IN
  /\ h.kind = "login" /\ h.pc = "provider"
  /\ handlers' = [handlers EXCEPT ![i] = [h EXCEPT !.pc = "sign"]]
  /\ trace' = trace \o << Ev(i, h.kind, "resolve", "getEthereumProvider", <<>>),
                          Ev(i, h.kind, "call", "personal_sign",
                             <<h.message, h.address>>) >>
  /\ UNCHANGED <<sdkVars, logs, error, isProcessingAccountChange, refVars, ops,
                 wagmiVars>>

\* await provider.request({method: 'personal_sign', ...}) resolves with s.
WagmiSigned(i, s) ==
  LET h == handlers[i] IN
  /\ h.kind = "login" /\ h.pc = "sign"
  /\ logs' = logAll(logs, << <<"Signature obtained">>,
                             <<"Calling loginWithSiwe()...">> >>)
  /\ handlers' = [handlers EXCEPT ![i] = [h EXCEPT !.pc = "signin",
                                                   !.signature = s]]
  /\ trace' = trace \o << Ev(i, h.kind, "resolve", "personal_sign", <<s>>),
                          Ev(i, h.kind, "call", "loginWithSiwe",
                             <<h.message, s>>) >>
  /\ UNCHANGED <<sdkVars, error, isProcessingAccountChange, refVars, ops,
                 wagmiVars>>

\* await loginWithSiwe(...) resolves.
WagmiLoggedIn(i) ==
  LET h == handlers[i] IN
  /\ h.kind = "login" /\ h.pc = "signin"
  /\ logs' = log(logs, <<"SUCCESS: loginWithSiwe completed!">>)
  /\ handlers' = [handlers EXCEPT ![i] = Idle]
  /\ trace' = Append(trace, Ev(i, h.kind, "resolve", "loginWithSiwe", <<>>))
  /\ UNCHANGED <<sdkVars, error, isProcessingAccountChange, refVars, ops,
                 wagmiVars>>

\* Click on "3. Logout from Privy".
WagmiHandleLogout ==
  LET i == ops + 1 IN
  /\ CanClick
  /\ ops' = i
  /\ error' = NoError
  /\ logs' = logAll(logs, LogoutHeaderLines(authenticated))
  /\ handlers' = [handlers EXCEPT ![i] =
         [Idle EXCEPT !.kind = "logout", !.pc = "logout",
                      !.address = account.address, !.wallets = wallets,
                      !.authenticated = authenticated]]
  /\ trace' = Append(trace, Ev(i, "logout", "call", "logout", <<>>))
  /\ UNCHANGED <<sdkVars, isProcessingAccountChange, refVars, wagmiVars>>

\* await logout() of handleLogout resolves: the 500 ms timer is set.
WagmiLogoutResolved(i) ==
  LET h == handlers[i] IN
  /\ h.kind = "logout" /\ h.pc = "logout"
  /\ logs' = log(logs, <<"logout() completed">>)
  /\ handlers' = [handlers EXCEPT ![i] = [h EXCEPT !.pc = "timer"]]
  /\ trace' = Append(trace, Ev(i, h.kind, "resolve", "logout", <<>>))
  /\ UNCHANGED <<sdkVars, error, isProcessingAccountChange, refVars, ops,
                 wagmiVars>>

\* The 500 ms timer of handleLogout fires.
WagmiLogoutTimerFired(i) ==
  LET h == handlers[i] IN
  /\ h.kind = "logout" /\ h.pc = "timer"
  /\ logs' = log(logs, LogoutAfterLine(LogoutAfterValue(h, authenticated)))
  /\ handlers' = [handlers EXCEPT ![i] = Idle]
  /\ trace' = Append(trace, Ev(i, h.kind, "timer", "setTimeout",
                               <<Str(authenticated)>>))
  /\ UNCHANGED <<sdkVars, error, isProcessingAccountChange, refVars, ops,
                 wagmiVars>>

\* Click on "4. Disconnect Wagmi".
WagmiHandleDisconnect ==
  LET i == ops + 1 IN
  /\ CanClick
  /\ ops' = i
  /\ logs' = log(logs, <<"Disconnecting wagmi...">>)
  /\ handlers' = [handlers EXCEPT ![i] =
         [Idle EXCEPT !.kind = "disconnect", !.pc = "disconnect"]]
  /\ trace' = Append(trace, Ev(i, "disconnect", "call", "disconnectAsync", <<>>))
  /\ UNCHANGED <<sdkVars, error, isProcessingAccountChange, refVars, wagmiVars>>

\* await disconnectAsync() of handleDisconnect resolves.
WagmiDisconnected(i) ==
  LET h == handlers[i] IN
  /\ h.kind = "disconnect" /\ h.pc = "disconnect"
  /\ logs' = log(logs, <<"Wagmi disconnected">>)
  /\ handlers' = [handlers EXCEPT ![i] = Idle]
  /\ trace' = Append(trace, Ev(i, h.kind, "resolve", "disconnectAsync", <<>>))
  /\ UNCHANGED <<sdkVars, error, isProcessingAccountChange, refVars, ops,
                 wagmiVars>>

\* Click on "Full Reset".
WagmiHandleFullReset ==
  LET i == ops + 1 IN
  /\ CanClick
  /\ ops' = i
  /\ error' = NoError
  /\ logs' = logAll(logs, << <<"=== FULL RESET ===">>,
                             <<"1. Disconnecting wagmi...">> >>)
  /\ handlers' = [handlers EXCEPT ![i] =
         [Idle EXCEPT !.kind = "reset", !.pc = "disconnect",
                      !.connector = account.connector]]
  /\ trace' = Append(trace, Ev(i, "reset", "call", "disconnectAsync", <<>>))
  /\ UNCHANGED <<sdkVars, isProcessingAccountChange, refVars, wagmiVars>>

\* await disconnectAsync() of handleFullReset resolves.
WagmiResetDisconnected(i) ==
  LET h == handlers[i] IN
  /\ h.kind = "reset" /\ h.pc = "disconnect"
  /\ logs' = log(logs, <<"2. Logging out from Privy...">>)
  /\ handlers' = [handlers EXCEPT ![i] = [h EXCEPT !.pc = "logout"]]
  /\ trace' = trace \o << Ev(i, h.kind, "resolve", "disconnectAsync", <<>>),
                          Ev(i, h.kind, "call", "logout", <<>>) >>
  /\ UNCHANGED <<sdkVars, error, isProcessingAccountChange, refVars, ops,
                 wagmiVars>>

\* await logout() of handleFullReset resolves: reconnect with the connector
\* of the render the click happened in, if there was one.
WagmiResetLoggedOut(i) ==
  LET h == handlers[i] IN
  /\ h.kind = "reset" /\ h.pc = "logout"
  /\ IF h.connector # None
     THEN /\ logs' = log(logs, <<"3. Reconnecting...">>)
          /\ handlers' = [handlers EXCEPT ![i] = [h EXCEPT !.pc = "connect"]]
          /\ trace' = trace \o << Ev(i, h.kind, "resolve", "logout", <<>>),
                                  Ev(i, h.kind, "call", "connectAsync",
                                     <<h.connector>>) >>
     ELSE /\ logs' = logAll(logs, << <<"3. Reconnecting...">>,
                                     <<"=== RESET COMPLETE ===">> >>)
          /\ handlers' = [handlers EXCEPT ![i] = Idle]
          /\ trace' = Append(trace, Ev(i, h.kind, "resolve", "logout", <<>>))
  /\ UNCHANGED <<sdkVars, error, isProcessingAccountChange, refVars, ops,
                 wagmiVars>>

\* await connectAsync({ connector }) of handleFullReset resolves.
WagmiResetReconnected(i) ==
  LET h == handlers[i] IN
  /\ h.kind = "reset" /\ h.pc = "connect"
  /\ logs' = logAll(logs, << <<"Reconnected!">>, <<"=== RESET COMPLETE ===">> >>)
  /\ handlers' = [handlers EXCEPT ![i] = Idle]
  /\ trace' = Append(trace, Ev(i, h.kind, "resolve", "connectAsync", <<>>))
  /\ UNCHANGED <<sdkVars, error, isProcessingAccountChange, refVars, ops,
                 wagmiVars>>

\* The call a handler of the wagmi page is suspended on.
WagmiFn(pc) ==
  CASE pc = "connect" -> "connectAsync"
    [] pc = "disconnect" -> "disconnectAsync"
    [] pc = "logout" -> "logout"
    [] pc \in SiwePcs -> SiweFn(pc)

\* The awaited call of a handler of the wagmi page rejects with msg.
WagmiRejected(i, msg) ==
  LET h == handlers[i] IN
  /\ InFlight(i) /\ h.pc # "timer"
  /\ WagmiCatch(i, h, WagmiFn(h.pc), msg)

\* Click on "Clear Logs".
WagmiClearLogs ==
  /\ CanStart
  /\ ops' = ops + 1
  /\ logs' = ClearedLogs
  /\ error' = ClearedError
  /\ trace' = Append(trace, Ev(ops + 1, "clear", "click", "clearLogs", <<>>))
  /\ UNCHANGED <<sdkVars, isProcessingAccountChange, refVars, handlers,
                 wagmiVars>>

\* ------------------------------------------------------------ specification

Ids == 1..MaxOps

Init ==
  /\ ready = FALSE
  /\ authenticated = FALSE
  /\ wallets = <<>>
  /\ logs = <<>>
  /\ error = NoError
  /\ isProcessingAccountChange = FALSE
  /\ prevAddressRef = None
  /\ hasCompletedSiweRef = FALSE
  /\ handlers = [i \in Ids |-> Idle]
  /\ ops = 0
  /\ trace = <<>>
  /\ account = [address |-> None, connector |-> None]
  /\ connectors = <<>>
  /\ page = "privy"

Next ==
  \/ \E rdy \in BOOLEAN, w \in WalletLists : SdkUpdate(rdy, w)
  \/ \E b \in BOOLEAN : SdkAuthenticated(b)
  \/ \E i \in Ids, msg \in ErrMsgs : AutoLogoutSettled(i, "reject", msg)
  \/ \E i \in Ids : AutoLogoutSettled(i, "resolve", <<>>)
  \/ \E i \in Ids : AutoDelayElapsed(i)
  \/ HandleLoginSiwe
  \/ \E i \in Ids, m \in Messages : SiweMessageGenerated(i, m)
  \/ \E i \in Ids : SiweProviderObtained(i)
  \/ \E i \in Ids, s \in Signatures : SiweSigned(i, s)
  \/ \E i \in Ids : SiweLoggedIn(i)
  \/ \E i \in Ids, msg \in ErrMsgs : SiweRejected(i, msg)
  \/ HandleLogout
  \/ \E i \in Ids : LogoutResolved(i)
  \/ \E i \in Ids, msg \in ErrMsgs : LogoutRejected(i, msg)
  \/ \E i \in Ids : LogoutTimerFired(i)
  \/ ClearLogs
  \/ \E msg \in ErrMsgs : HandleConnect("reject", msg)
  \/ HandleConnect("resolve", <<>>)

Spec == Init /\ [][Next]_vars

\* wagmi's account: disconnected, or an address with its connector.
Accounts ==
  {[address |-> None, connector |-> None]}
    \cup {[address |-> a, connector |-> "injected"] : a \in WagmiAddresses}

\* The connector lists the page may be configured with.
ConnectorLists == {<<"walletConnect">>, <<"walletConnect", "injected">>}

InitWagmi ==
  /\ ready = FALSE
  /\ authenticated = FALSE
  /\ wallets = <<>>
  /\ logs = <<>>
  /\ error = NoError
  /\ isProcessingAccountChange = FALSE
  /\ prevAddressRef = None
  /\ hasCompletedSiweRef = FALSE
  /\ handlers = [i \in Ids |-> Idle]
  /\ ops = 0
  /\ trace = <<>>
  /\ account = [address |-> None, connector |-> None]
  /\ connectors \in ConnectorLists
  /\ page = "wagmi"

NextWagmi ==
  \/ \E acc \in Accounts : WagmiUpdate(acc)
  \/ \E rdy \in BOOLEAN, w \in WalletLists : WagmiSdkUpdate(rdy, w)
  \/ \E b \in BOOLEAN : SdkAuthenticated(b)
  \/ WagmiHandleConnect
  \/ \E i \in Ids : WagmiConnected(i)
  \/ WagmiHandleLoginSiwe
  \/ \E i \in Ids, m \in Messages : WagmiMessageGenerated(i, m)
  \/ \E i \in Ids : WagmiProviderObtained(i)
  \/ \E i \in Ids, s \in Signatures : WagmiSigned(i, s)
  \/ \E i \in Ids : WagmiLoggedIn(i)
  \/ WagmiHandleLogout
  \/ \E i \in Ids : WagmiLogoutResolved(i)
  \/ \E i \in Ids : WagmiLogoutTimerFired(i)
  \/ WagmiHandleDisconnect
  \/ \E i \in Ids : WagmiDisconnected(i)
  \/ WagmiHandleFullReset
  \/ \E i \in Ids : WagmiResetDisconnected(i)
  \/ \E i \in Ids : WagmiResetLoggedOut(i)
  \/ \E i \in Ids : WagmiResetReconnected(i)
  \/ \E i \in Ids, msg \in ErrMsgs : WagmiRejected(i, msg)
  \/ WagmiClearLogs

SpecWagmi == InitWagmi /\ [][NextWagmi]_vars

\* Either page.
InitPages == Init \/ InitWagmi

NextPages ==
  \/ page = "privy" /\ Next
  \/ page = "wagmi" /\ NextWagmi

SpecPages == InitPages /\ [][NextPages]_vars

\* Every awaited call of the automatic handler eventually resolves or rejects,
\* and its settle delay elapses: the steps of an instance in flight are taken.
AutoStep ==
  \/ \E i \in Ids, msg \in ErrMsgs : AutoLogoutSettled(i, "reject", msg)
  \/ \E i \in Ids : AutoLogoutSettled(i, "resolve", <<>>)
  \/ \E i \in Ids : AutoDelayElapsed(i)
  \/ \E i \in Ids, m \in Messages :
        handlers[i].kind = "auto" /\ SiweMessageGenerated(i, m)
  \/ \E i \in Ids : handlers[i].kind = "auto" /\ SiweProviderObtained(i)
  \/ \E i \in Ids, s \in Signatures : handlers[i].kind = "auto" /\ SiweSigned(i, s)
  \/ \E i \in Ids : handlers[i].kind = "auto" /\ SiweLoggedIn(i)

\* The liveness specification: the page as in Spec, with operations started
\* only once the SDK is ready, and the automatic handler's steps taken.
FairNext == Next /\ (ops' # ops => ready)

FairSpec == Init /\ [][FairNext]_vars /\ WF_vars(AutoStep)

\* ------------------------------------------------------------------ claims

LastEv == trace[Len(trace)]

\* The step issues the logout call that begins an automatic logout+sign-in pair.
AutoStarted ==
  /\ trace' # trace
  /\ LET e == trace'[Len(trace')]
     IN  e.kind = "auto" /\ e.ev = "call" /\ e.fn = "logout"

\* The step is a render in which the effect's dependencies changed.
Observed == <<ready', AddressOf(wallets')>> # <<ready, AddressOf(wallets)>>

AutoInFlight == {i \in Ids : handlers[i].kind = "auto" /\ InFlight(i)}

\* C1: the automatic handler starts its logout+sign-in pair only in a step
\* that observes an address different from the recorded previous address,
\* at most once in that step, never when no address was recorded before (the
\* first observation), and it records the new address in the same step; the
\* recorded address changes in no other kind of step, so after the pair
\* failed nothing starts it again until the address changes again.
C1_OncePerChange ==
  [][/\ AutoStarted =>
          /\ Observed
          /\ prevAddressRef # None
          /\ AddressOf(wallets') # None
          /\ AddressOf(wallets') # prevAddressRef
          /\ prevAddressRef' = AddressOf(wallets')
          /\ Len(trace') = Len(trace) + 1
          /\ ops' = ops + 1
     /\ ~Observed => prevAddressRef' = prevAddressRef]_vars

\* C1 witness: a pair was started once, it failed, and the address that
\* triggered it is still the current one: nothing was started again.
C1_Witness ==
  /\ ready
  /\ AddressOf(wallets) # None
  /\ AddressOf(wallets) = prevAddressRef
  /\ AutoInFlight = {}
  /\ Cardinality({k \in 1..Len(trace) :
        trace[k].kind = "auto" /\ trace[k].ev = "call"
        /\ trace[k].fn = "logout"}) = 1
  /\ \E k \in 1..Len(trace) : trace[k].kind = "auto" /\ trace[k].ev = "reject"
  /\ ops < MaxOps

\* C2: while the in-flight flag is set no pair is started, at most one
\* automatic sequence is in flight, and the step in which a sequence ends
\* starts no pair for a change that was ignored meanwhile.
C2_SingleInFlight ==
  [][/\ isProcessingAccountChange => ~AutoStarted
     /\ AutoInFlight # {} => ~AutoStarted
     /\ Cardinality(AutoInFlight') <= 1
     /\ isProcessingAccountChange' <=> AutoInFlight' # {}]_vars

\* C2 witness: a sequence is in flight and the current address differs from
\* the recorded one: a change was detected and ignored.
C2_Witness ==
  /\ isProcessingAccountChange
  /\ AutoInFlight # {}
  /\ ready
  /\ AddressOf(wallets) # None
  /\ AddressOf(wallets) # prevAddressRef
  /\ ops < MaxOps

NoSignInEver ==
  \A k \in 1..Len(trace) :
     ~(trace[k].ev = "resolve" /\ trace[k].fn = "loginWithSiwe")

\* C3: with no sign-in ever completed, an effect run that sees (SDK ready) a
\* non-empty address different from the recorded one records it and does
\* nothing else: no call, no handler, flag false, log and error unchanged.
C3_RecordOnly ==
  [][(/\ NoSignInEver
      /\ Observed
      /\ ready'
      /\ prevAddressRef # None
      /\ AddressOf(wallets') # None
      /\ AddressOf(wallets') # prevAddressRef)
     => /\ prevAddressRef' = AddressOf(wallets')
        /\ trace' = trace
        /\ handlers' = handlers
        /\ ~isProcessingAccountChange'
        /\ logs' = logs
        /\ error' = error
        /\ hasCompletedSiweRef' = hasCompletedSiweRef]_vars

\* C3 witness: a manual sign-in was started for 0xA with the SDK ready (so 0xA
\* was recorded), no sign-in has completed, and 0xB is recorded now.
C3_Witness ==
  /\ NoSignInEver
  /\ prevAddressRef = "0xB"
  /\ AddressOf(wallets) = "0xB"
  /\ \E k \in 1..Len(logs) : logs[k] = <<"Privy ready: ", "true">>
  /\ \E k \in 1..Len(logs) : logs[k] = <<"Address: ", "0xA">>
  /\ ~\E k \in 1..Len(logs) : logs[k] = <<"Address: ", "0xB">>

\* C4: the step in which a call of the automatic handler rejects leaves the
\* error slot holding the rejection's message, the failure line followed by
\* the fixed note at the end of the log, and the in-flight flag false.
C4_AutoFailure ==
  [][(trace' # trace /\ trace'[Len(trace')].kind = "auto"
                     /\ trace'[Len(trace')].ev = "reject")
     => LET msg == trace'[Len(trace')].args
        IN  /\ error' = msg
            /\ logs' = logs \o <<FailedLine(msg), NoteLine>>
            /\ ~isProcessingAccountChange'
            /\ AutoInFlight' = {}]_vars

\* C4 witness: the reproduction scenario: the automatic handler's sign-in
\* call was rejected with "User already authenticated".
C4_Witness ==
  /\ trace # <<>>
  /\ LastEv.kind = "auto" /\ LastEv.ev = "reject" /\ LastEv.fn = "loginWithSiwe"
  /\ LastEv.args = <<"User already authenticated">>
  /\ error = <<"User already authenticated">>
  /\ \E k \in 1..Len(logs) : logs[k] = <<"Step 1: Calling logout()...">>
  /\ logs[Len(logs)] = NoteLine
  /\ ~isProcessingAccountChange

\* The automatic handler has just completed successfully.
AutoJustSucceeded ==
  /\ trace # <<>>
  /\ LastEv.kind = "auto" /\ LastEv.ev = "resolve" /\ LastEv.fn = "loginWithSiwe"

\* C5 as stated: when the automatic handler's logout and sign-in resolved, at
\* its completion the in-flight flag is false and the error slot is empty.
C5_Original ==
  AutoJustSucceeded => ~isProcessingAccountChange /\ error = NoError

\* C5 amended: at the successful completion the in-flight flag is false and
\* the error slot is empty unless another operation failed (threw or saw a
\* call reject) after the handler started, in which case it holds that
\* operation's message.
C5_AutoSuccess ==
  AutoJustSucceeded =>
    /\ ~isProcessingAccountChange
    /\ \/ error = NoError
       \/ \E j, k \in 1..Len(trace) :
             /\ j < k
             /\ trace[j].id = LastEv.id /\ trace[j].ev = "call"
             /\ trace[j].fn = "logout"
             /\ trace[k].id # LastEv.id
             /\ trace[k].ev \in {"reject", "throw"}
             /\ trace[k].args = error

\* C5 witness: the automatic handler completed successfully, nothing else
\* failed meanwhile.
C5_Witness ==
  AutoJustSucceeded /\ error = NoError /\ ~isProcessingAccountChange

\* C6: whenever the in-flight flag is set it is eventually false again,
\* given that every call of the handler settles and its delay elapses.
C6_FlagCleared ==
  isProcessingAccountChange ~> ~isProcessingAccountChange

\* C6 witness: the flag is set and the handler is suspended on its sign-in call.
C6_Witness ==
  /\ isProcessingAccountChange
  /\ \E i \in Ids : handlers[i].kind = "auto" /\ handlers[i].pc = "signin"

SignInFns == {"generateSiweMessage", "getEthereumProvider", "personal_sign",
              "loginWithSiwe"}

\* C7: every sign-in call of an automatic handler comes after the resolution
\* of that handler's logout call, and after its logout call rejected the
\* handler issues nothing more.
C7_LogoutBeforeSignIn ==
  \A k \in 1..Len(trace) :
     /\ (trace[k].kind = "auto" /\ trace[k].ev = "call"
         /\ trace[k].fn \in SignInFns)
        => \E j \in 1..(k - 1) :
              /\ trace[j].id = trace[k].id
              /\ trace[j].ev = "resolve" /\ trace[j].fn = "logout"
     /\ (trace[k].kind = "auto" /\ trace[k].ev = "reject"
         /\ trace[k].fn = "logout")
        => /\ \A j \in (k + 1)..Len(trace) : trace[j].id # trace[k].id
           /\ ~InFlight(trace[k].id)

\* C7 witness: an automatic handler has issued its sign-in call.
C7_Witness ==
  \E k \in 1..Len(trace) :
     trace[k].kind = "auto" /\ trace[k].ev = "call" /\ trace[k].fn = "loginWithSiwe"

\* The address a manual sign-in reads on the mounted page.
CurrentAddress ==
  IF page = "privy" THEN AddressOf(wallets) ELSE account.address

\* The step is a click on Login.
LoginClicked ==
  /\ ops' = ops + 1
  /\ Len(logs') > Len(logs)
  /\ logs'[Len(logs) + 1] = <<"--- Starting SIWE Login ---">>

\* C8: a click on Login with no wallet address connected (on either page)
\* puts a message containing "No address" in the error slot and in the last
\* log line, issues no call, leaves no handler suspended and leaves the
\* sign-in-completed flag unchanged.
C8_NoAddress ==
  [][(LoginClicked /\ CurrentAddress = None)
     => /\ Contains(error', "No address")
        /\ Contains(logs'[Len(logs')], "No address")
        /\ \A k \in (Len(trace) + 1)..Len(trace') : trace'[k].ev # "call"
        /\ handlers' = handlers
        /\ hasCompletedSiweRef' = hasCompletedSiweRef]_vars

\* C8 witness: Login was clicked with no address while a wallet had been
\* connected before (a sign-in call was issued earlier).
C8_Witness ==
  /\ trace # <<>>
  /\ LastEv.kind = "login" /\ LastEv.ev = "throw"
  /\ Contains(LastEv.args, "No address")
  /\ Contains(error, "No address")
  /\ CurrentAddress = None
  /\ \E k \in 1..Len(trace) : trace[k].fn = "generateSiweMessage"

\* C9 as stated: the delayed line of a manual Logout reports the SDK's
\* authenticated flag as it stands when the line is written.
C9_AfterLineCurrent ==
  (trace # <<>> /\ LastEv.kind = "logout" /\ LastEv.ev = "timer")
    => logs[Len(logs)] = <<"After 500ms: authenticated = ", LastEv.args[1]>>

\* The line ends with the message.
EndsWith(line, msg) ==
  /\ Len(line) >= Len(msg)
  /\ SubSeq(line, Len(line) - Len(msg) + 1, Len(line)) = msg

\* C10 as stated: when a call of any operation rejects, the operation ends
\* there with the rejection's message in the error slot and in a line at the
\* end of the log.
C10_RejectionCaught ==
  (trace # <<>> /\ LastEv.ev = "reject")
    => /\ error = LastEv.args
       /\ \E k \in 1..Len(logs) :
             k >= Len(logs) - 1 /\ EndsWith(logs[k], LastEv.args)
       /\ ~InFlight(LastEv.id)

\* The step ends with a call of a sign-in being rejected.
SignInRejected ==
  /\ trace' # trace
  /\ trace'[Len(trace')].ev = "reject"
  /\ trace'[Len(trace')].fn \in SignInFns

\* C11: in every state the sign-in-completed flag is true exactly if some
\* sign-in call (manual or automatic) has resolved, and a step in which
\* challenge generation, the provider, signing or the sign-in call rejects
\* leaves the flag as it was.
C11_FlagIffSignedIn ==
  /\ [](hasCompletedSiweRef <=> ~NoSignInEver)
  /\ [][SignInRejected => hasCompletedSiweRef' = hasCompletedSiweRef]_vars

\* C11 witness: a sign-in failed at its sign-in call and nothing has ever
\* completed: the flag is still false.
C11_Witness ==
  /\ trace # <<>>
  /\ LastEv.ev = "reject" /\ LastEv.fn = "loginWithSiwe"
  /\ NoSignInEver
  /\ ~hasCompletedSiweRef

\* The step is a click on Clear Logs.
ClearClicked ==
  /\ trace' # trace
  /\ trace'[Len(trace')].fn = "clearLogs"

\* C12: a click on Clear Logs, in any state, leaves the log and the error
\* slot empty and changes neither the in-flight flag, nor the recorded
\* previous address, nor the sign-in-completed flag (nor any handler in
\* flight).
C12_ClearLogs ==
  [][ClearClicked =>
       /\ logs' = <<>>
       /\ error' = NoError
       /\ isProcessingAccountChange' = isProcessingAccountChange
       /\ prevAddressRef' = prevAddressRef
       /\ hasCompletedSiweRef' = hasCompletedSiweRef
       /\ handlers' = handlers]_vars

\* C12 witness: Clear Logs was clicked while an automatic sequence was in
\* flight.
C12_Witness ==
  /\ trace # <<>>
  /\ LastEv.fn = "clearLogs"
  /\ logs = <<>>
  /\ error = NoError
  /\ isProcessingAccountChange
  /\ AutoInFlight # {}

\* The lines of the log are kept, in their order, at its head.
Appended == Len(logs') >= Len(logs) /\ SubSeq(logs', 1, Len(logs)) = logs

\* The step is a click on Connect.
ConnectClicked ==
  /\ trace' # trace
  /\ \E k \in (Len(trace) + 1)..Len(trace') :
        trace'[k].kind = "connect" /\ trace'[k].ev \in {"call", "throw"}

\* C13 as stated: every step other than a click on Clear Logs changes the
\* log only by appending lines at its end.
C13_Original ==
  [][~ClearClicked => Appended]_vars

\* C13 amended: every step other than a click on Clear Logs or on Connect
\* changes the log only by appending lines at its end; a click on Connect
\* empties the log first, so that the log then holds its own lines only.
C13_AppendOnly ==
  [][/\ (~ClearClicked /\ ~ConnectClicked) => Appended
     /\ ConnectClicked =>
          /\ Len(logs') \in 1..3
          /\ logs'[1] \in {<<"Opening Privy connect modal...">>,
                           <<"Connecting wallet...">>}]_vars

\* C13 witness: the log holds the lines of a failed manual sign-in followed
\* by the lines of a manual logout, all kept in their order.
C13_Witness ==
  /\ Len(logs) >= 8
  /\ logs[1] = <<"--- Starting SIWE Login ---">>
  /\ Head(logs[6]) = "FAILED: "
  /\ logs[7] = <<"--- Logging out from Privy ---">>

\* Entry k of the recording is handler i issuing call fn with the arguments.
Called(k, i, fn, args) ==
  /\ trace[k].id = i /\ trace[k].ev = "call"
  /\ trace[k].fn = fn /\ trace[k].args = args

\* Entry k of the recording is call fn of handler i resolving with the value.
Resolved(k, i, fn, value) ==
  /\ trace[k].id = i /\ trace[k].ev = "resolve"
  /\ trace[k].fn = fn /\ trace[k].args = value

\* The calls of the sign-ins recorded so far are in the fixed order, each
\* issued after the previous one resolved, with the values handed on.
SignInOrdered ==
  \A k \in 1..Len(trace) :
    LET e == trace[k] IN
    /\ (e.ev = "call" /\ e.fn = "generateSiweMessage")
       => /\ Len(e.args) = 2 /\ e.args[2] = "eip155:56"
          /\ \A j \in 1..(k - 1) :
                trace[j].id = e.id => trace[j].fn \notin SignInFns
    /\ (e.ev = "call" /\ e.fn = "personal_sign")
       => /\ Len(e.args) = 2
          /\ \E j \in 1..(k - 1) :
                /\ Resolved(j, e.id, "generateSiweMessage", <<e.args[1]>>)
                /\ \E g \in 1..(j - 1) :
                      Called(g, e.id, "generateSiweMessage",
                             <<e.args[2], "eip155:56">>)
    /\ (e.ev = "call" /\ e.fn = "loginWithSiwe")
       => /\ Len(e.args) = 2
          /\ \E r \in 1..(k - 1) :
                /\ Resolved(r, e.id, "personal_sign", <<e.args[2]>>)
                /\ \E q \in 1..(r - 1) :
                      /\ trace[q].id = e.id /\ trace[q].ev = "call"
                      /\ trace[q].fn = "personal_sign"
                      /\ trace[q].args[1] = e.args[1]
    /\ (e.ev = "reject" /\ e.fn \in SignInFns)
       => /\ \A j \in (k + 1)..Len(trace) : trace[j].id # e.id
          /\ ~InFlight(e.id)

\* C14: a sign-in issues challenge generation for its address and chain
\* 'eip155:56', then personal_sign of exactly the returned message by that
\* address, then the sign-in call with exactly that message and the returned
\* signature, each only after the previous call resolved; after a rejection
\* it issues nothing more.  The address of a manual sign-in is the one
\* current at the click.
C14_SignInOrder ==
  /\ []SignInOrdered
  /\ [][(LoginClicked /\ trace' # trace /\ trace'[Len(trace')].ev = "call")
        => trace'[Len(trace')] =
             Ev(ops + 1, "login", "call", "generateSiweMessage",
                <<CurrentAddress, "eip155:56">>)]_vars

\* C14 witness: on the wagmi page a sign-in has gone through all its calls.
C14_Witness ==
  /\ page = "wagmi"
  /\ trace # <<>>
  /\ LastEv.kind = "login" /\ LastEv.ev = "resolve" /\ LastEv.fn = "loginWithSiwe"

\* C15: every challenge and signature request of the automatic handler is
\* made for the address that triggered it, which is the recorded previous
\* address at that moment, whatever address the wallet list shows by then;
\* the closure of a handler in flight holds the recorded address throughout.
C15_AutoAddress ==
  /\ [](\A i \in AutoInFlight : handlers[i].address = prevAddressRef)
  /\ [][\A k \in (Len(trace) + 1)..Len(trace') :
          LET e == trace'[k] IN
          /\ (e.kind = "auto" /\ e.ev = "call" /\ e.fn = "generateSiweMessage")
             => e.args[1] = prevAddressRef' /\ e.args[1] = handlers[e.id].address
          /\ (e.kind = "auto" /\ e.ev = "call" /\ e.fn = "personal_sign")
             => e.args[2] = prevAddressRef' /\ e.args[2] = handlers[e.id].address
        ]_vars

\* C15 witness: the automatic handler has requested the signature for the
\* address that triggered it while the wallet list shows another address.
C15_Witness ==
  /\ trace # <<>>
  /\ LastEv.kind = "auto" /\ LastEv.ev = "call" /\ LastEv.fn = "personal_sign"
  /\ LastEv.args[2] = prevAddressRef
  /\ AddressOf(wallets) \in Addresses
  /\ AddressOf(wallets) # prevAddressRef

\* The step triggers nothing: refs, flag, log, error, calls and handlers are
\* as they were.
NothingTriggered ==
  /\ prevAddressRef' = prevAddressRef
  /\ hasCompletedSiweRef' = hasCompletedSiweRef
  /\ isProcessingAccountChange' = isProcessingAccountChange
  /\ logs' = logs
  /\ error' = error
  /\ trace' = trace
  /\ handlers' = handlers

\* The step is an effect run, with the SDK ready, that sees a non-empty
\* address different from the recorded one.
ChangeDetected ==
  /\ Observed
  /\ ready'
  /\ prevAddressRef # None
  /\ AddressOf(wallets') # None
  /\ AddressOf(wallets') # prevAddressRef

\* C16: no step resets the sign-in-completed flag once it is true, and with
\* the flag true every detected change of the address away from the recorded
\* one, with no automatic sequence in flight, starts the automatic
\* logout+sign-in pair for the new address (also after a manual logout).
C16_FlagMonotonic ==
  [][/\ hasCompletedSiweRef => hasCompletedSiweRef'
     /\ (hasCompletedSiweRef /\ ChangeDetected
         /\ ~isProcessingAccountChange /\ AutoInFlight = {})
        => /\ AutoStarted
           /\ prevAddressRef' = AddressOf(wallets')
           /\ hasCompletedSiweRef']_vars

\* C16 witness: after a successful sign-in and a manual logout that resolved,
\* an address change has started the automatic pair.
C16_Witness ==
  /\ trace # <<>>
  /\ LastEv.kind = "auto" /\ LastEv.ev = "call" /\ LastEv.fn = "logout"
  /\ hasCompletedSiweRef
  /\ \E k \in 1..Len(trace) :
        trace[k].kind = "logout" /\ trace[k].ev = "resolve"

\* C17: a detected change that finds the in-flight flag set triggers nothing
\* and is not recorded, so the recorded address stays the one that triggered
\* the running sequence; an effect run that sees the recorded address again
\* triggers nothing either.
C17_IgnoredChange ==
  [][/\ (ChangeDetected /\ isProcessingAccountChange) => NothingTriggered
     /\ (Observed /\ ready' /\ AddressOf(wallets') # None
         /\ AddressOf(wallets') = prevAddressRef) => NothingTriggered
     /\ \A i \in AutoInFlight :
          i \in AutoInFlight' => prevAddressRef' = handlers[i].address]_vars

\* C17 witness: during the settle delay of an automatic sequence for 0xB the
\* wallet list shows 0xA: the change to 0xA was ignored and 0xB is still the
\* recorded address.
C17_Witness ==
  /\ isProcessingAccountChange
  /\ \E i \in Ids : /\ handlers[i].kind = "auto" /\ handlers[i].pc = "delay"
                    /\ handlers[i].address = "0xB"
  /\ ready
  /\ AddressOf(wallets) = "0xA"
  /\ prevAddressRef = "0xB"

\* C18: an effect run that finds the SDK not ready or no address triggers
\* nothing and leaves the recorded address alone; when an address appears
\* after there was none, it is compared with the recorded one: the same
\* address triggers nothing, a different one is an account change (recorded
\* if no sign-in has completed, ignored while a sequence is in flight, and
\* otherwise the start of the automatic pair).
C18_NoAddressNoReset ==
  [][/\ (Observed /\ (~ready' \/ AddressOf(wallets') = None)) => NothingTriggered
     /\ (AddressOf(wallets) = None /\ ready' /\ prevAddressRef # None
         /\ AddressOf(wallets') = prevAddressRef) => NothingTriggered
     /\ (AddressOf(wallets) = None /\ ChangeDetected)
        => IF ~hasCompletedSiweRef
           THEN /\ prevAddressRef' = AddressOf(wallets')
                /\ trace' = trace /\ logs' = logs
           ELSE IF isProcessingAccountChange
           THEN NothingTriggered
           ELSE AutoStarted /\ prevAddressRef' = AddressOf(wallets')]_vars

\* C18 witness: after a sign-in for 0xA the address was lost: the effect ran
\* with no address and 0xA is still the recorded address.
C18_Witness ==
  /\ ready
  /\ AddressOf(wallets) = None
  /\ prevAddressRef = "0xA"
  /\ hasCompletedSiweRef

\* The calls of the Full Resets recorded so far are in order, each issued
\* after the previous one resolved, and nothing follows a rejection.
ResetOrdered ==
  \A k \in 1..Len(trace) :
    LET e == trace[k] IN
    e.kind = "reset" =>
      /\ (e.ev = "call" /\ e.fn = "disconnectAsync")
         => \A j \in 1..(k - 1) : trace[j].id # e.id
      /\ (e.ev = "call" /\ e.fn = "logout")
         => \E j \in 1..(k - 1) : Resolved(j, e.id, "disconnectAsync", <<>>)
      /\ (e.ev = "call" /\ e.fn = "connectAsync")
         => \E j \in 1..(k - 1) : Resolved(j, e.id, "logout", <<>>)
      /\ e.ev = "reject"
         => /\ \A j \in (k + 1)..Len(trace) : trace[j].id # e.id
            /\ ~InFlight(e.id)

\* The last entry the step adds to the recording.
NewEv == trace'[Len(trace')]

ResetCompleteLine == <<"=== RESET COMPLETE ===">>

\* C19: Full Reset calls disconnect, then logout, then connect with the
\* connector of the render it was clicked in (no connect call if there was
\* none), each after the previous call resolved; a rejection ends it with the
\* line "Reset failed: <message>" at the end of the log and the message in
\* the error slot; the completion line is logged exactly when the last call
\* resolved.
C19_FullReset ==
  /\ []ResetOrdered
  /\ [][(trace' # trace /\ NewEv.kind = "reset") =>
          LET i == NewEv.id IN
          /\ (NewEv.ev = "call" /\ NewEv.fn = "disconnectAsync")
             => handlers'[i].connector = account.connector
          /\ handlers[i].kind = "reset" /\ handlers'[i].kind = "reset"
             => handlers'[i].connector = handlers[i].connector
          /\ (NewEv.ev = "call" /\ NewEv.fn = "connectAsync")
             => /\ handlers[i].connector # None
                /\ NewEv.args = <<handlers[i].connector>>
          /\ (NewEv.ev = "resolve" /\ NewEv.fn = "logout")
             => /\ handlers[i].connector = None
                /\ handlers'[i].pc = "idle"
          /\ NewEv.ev = "reject"
             => /\ error' = NewEv.args
                /\ logs' = Append(logs, <<"Reset failed: ">> \o NewEv.args)
          /\ (NewEv.ev = "resolve" /\ NewEv.fn \in {"logout", "connectAsync"})
             => /\ logs'[Len(logs')] = ResetCompleteLine
                /\ Len(logs') > Len(logs)
          /\ (NewEv.ev # "resolve" \/ NewEv.fn = "disconnectAsync")
             => \A k \in (Len(logs) + 1)..Len(logs') :
                   logs'[k] # ResetCompleteLine]_vars

\* C19 witness: a Full Reset has reconnected with the connector of the click
\* although wagmi reports no account by now, and logged its completion.
C19_Witness ==
  /\ trace # <<>>
  /\ LastEv.kind = "reset" /\ LastEv.ev = "resolve" /\ LastEv.fn = "connectAsync"
  /\ logs[Len(logs)] = ResetCompleteLine
  /\ account.connector = None
  /\ error = NoError

====
